---- MODULE Spec2Model ----
(***************************************************************************)
(* The per-account dispute / resolve / chargeback state machine of         *)
(* src/src/domain/account.rs, with the transaction value type of           *)
(* src/src/domain/transaction.rs; the Portfolio of account.rs as           *)
(* get_content (src/src/reader.rs) fills it and run (src/src/lib.rs) emits *)
(* it; and the history-scanning Account of transaction.rs.                 *)
(*                                                                         *)
(* Amounts are rust_decimal Decimals; they are modelled exactly, as        *)
(* integers counting units of 10^-4 (62.555 is 625550).                    *)
(***************************************************************************)
EXTENDS Integers, Sequences, FiniteSets, TLC

(***************************************************************************)
(* Input values: the clients, tx ids and amounts the unit tests use.       *)
(***************************************************************************)
AccountClient == 2
OtherClient == 999
DepositTx == 1
WithdrawTx == 2
DepositAmount == 625550
WithdrawAmount == 300000

\* Longest history explored by Spec.
MaxLen == 4
\* Longest history explored by SpecExample.
MaxLenEx == 6

\* Most records the reader applies in SpecRun.
MaxRows == 3
\* Most calls of get_snapshot_line made after the emit loop has ended.
MaxAgain == 2

\* The amount of the row the reader's test rejects (-23).
NegativeAmount == -230000

Clients == {AccountClient, OtherClient}
TxIds == {DepositTx, WithdrawTx}
Amounts == {DepositAmount, WithdrawAmount}

\* Option<T>: None is the empty sequence, Some(x) the one-element sequence.
None == <<>>
Some(x) == <<x>>

\* The amount slot of the kinds that carry none (Dispute, Resolve, ChargeBack).
NoAmount == 0

Monetary == {"Deposit", "Withdraw"}

(***************************************************************************)
(* Transaction constructors.  A failed construction is None.               *)
(***************************************************************************)
\* create_deposit that rejects an amount of zero as well.
create_deposit_rejects_zero(client, tx, amount) ==
    IF amount <= 0 THEN None
    ELSE Some([client |-> client, tx |-> tx, kind |-> "Deposit", amount |-> amount])

create_deposit(client, tx, amount) ==
    IF amount < 0 THEN None
    ELSE Some([client |-> client, tx |-> tx, kind |-> "Deposit", amount |-> amount])

create_withdraw(client, tx, amount) ==
    IF amount < 0 THEN None
    ELSE Some([client |-> client, tx |-> tx, kind |-> "Withdraw", amount |-> amount])

create_dispute(client, tx) ==
    Some([client |-> client, tx |-> tx, kind |-> "Dispute", amount |-> NoAmount])

create_resolve(client, tx) ==
    Some([client |-> client, tx |-> tx, kind |-> "Resolve", amount |-> NoAmount])

create_chargeback(client, tx) ==
    Some([client |-> client, tx |-> tx, kind |-> "ChargeBack", amount |-> NoAmount])

\* Every transaction value the constructors yield over the input values.
Transactions ==
    { c[1] : c \in
        ({create_deposit(cl, tx, a) : cl \in Clients, tx \in TxIds, a \in Amounts}
         \cup {create_withdraw(cl, tx, a) : cl \in Clients, tx \in TxIds, a \in Amounts}
         \cup {create_dispute(cl, tx) : cl \in Clients, tx \in TxIds}
         \cup {create_resolve(cl, tx) : cl \in Clients, tx \in TxIds}
         \cup {create_chargeback(cl, tx) : cl \in Clients, tx \in TxIds}) \ {None} }

\* The transactions of the tests' worked examples: one Deposit (tx 1) and one
\* Withdraw (tx 2), and any Dispute / Resolve / ChargeBack naming them.
ExampleTransactions ==
    { t \in Transactions :
        /\ t.kind = "Deposit" => (t.tx = DepositTx /\ t.amount = DepositAmount)
        /\ t.kind = "Withdraw" => (t.tx = WithdrawTx /\ t.amount = WithdrawAmount) }

(***************************************************************************)
(* Snapshot and Account values.                                            *)
(***************************************************************************)
Snapshot_new(client) ==
    [client |-> client, total |-> 0, held |-> 0, locked |-> FALSE]

get_available(s) == s.total - s.held

Account_new(client) ==
    [client |-> client,
     transactions |-> <<>>,
     disputed_transactions |-> [x \in TxIds |-> None],
     snapshot |-> Snapshot_new(client)]

take_snapshot(self) == self.snapshot

get_disputed_transaction(self, t) == self.disputed_transactions[t.tx]

\* Result<(), &str> of the helpers, with the account as they leave it.
Ok(self) == [acc |-> self, res |-> "Ok"]
Err(self) == [acc |-> self, res |-> "Err"]
\* .unwrap() of a helper's result: an Err panics.
unwrap(r) == IF r.res = "Ok" THEN r ELSE [acc |-> r.acc, res |-> "Panic"]

\* apply_changeback that forgets to debit total.
apply_changeback_keeps_total(self, disputed) ==
    IF disputed.kind \in Monetary
    THEN [acc |-> [self EXCEPT !.snapshot.held = @ - disputed.amount,
                               !.snapshot.locked = TRUE],
          res |-> "Ok"]
    ELSE [acc |-> self, res |-> "Panic"]

apply_changeback(self, disputed) ==
    IF disputed.kind \in Monetary
    THEN Ok([self EXCEPT !.snapshot.total = @ - disputed.amount,
                         !.snapshot.held = @ - disputed.amount,
                         !.snapshot.locked = TRUE])
    ELSE [acc |-> self, res |-> "Panic"]

resolve(self, disputed) ==
    IF disputed.kind \in Monetary
    THEN Ok([self EXCEPT !.snapshot.held = @ - disputed.amount])
    ELSE Err(self)

\* The loop of open_dispute without the comparison of tx ids: every Deposit and
\* Withdraw of the history is taken for the disputed one.
RECURSIVE open_dispute_loop_any_tx(_, _, _)
open_dispute_loop_any_tx(self, t, i) ==
    IF i > Len(self.transactions) THEN self
    ELSE LET r == self.transactions[i] IN
         IF r = t THEN open_dispute_loop_any_tx(self, t, i + 1)
         ELSE IF r.kind = "Deposit"
              THEN open_dispute_loop_any_tx(
                     [self EXCEPT !.snapshot.held = @ + r.amount,
                                  !.disputed_transactions[t.tx] = Some(r)],
                     t, i + 1)
         ELSE IF r.kind = "Withdraw"
              THEN open_dispute_loop_any_tx(
                     [self EXCEPT !.snapshot.total = @ + r.amount,
                                  !.snapshot.held = @ + r.amount,
                                  !.disputed_transactions[t.tx] = Some(r)],
                     t, i + 1)
         ELSE open_dispute_loop_any_tx(self, t, i + 1)

\* The loop of open_dispute that records a transaction of any kind with the tx
\* id of t as the disputed one.
RECURSIVE open_dispute_loop_any_kind(_, _, _)
open_dispute_loop_any_kind(self, t, i) ==
    IF i > Len(self.transactions) THEN self
    ELSE LET r == self.transactions[i] IN
         IF r = t \/ r.tx /= t.tx THEN open_dispute_loop_any_kind(self, t, i + 1)
         ELSE IF r.kind = "Deposit"
              THEN open_dispute_loop_any_kind(
                     [self EXCEPT !.snapshot.held = @ + r.amount,
                                  !.disputed_transactions[t.tx] = Some(r)],
                     t, i + 1)
         ELSE IF r.kind = "Withdraw"
              THEN open_dispute_loop_any_kind(
                     [self EXCEPT !.snapshot.total = @ + r.amount,
                                  !.snapshot.held = @ + r.amount,
                                  !.disputed_transactions[t.tx] = Some(r)],
                     t, i + 1)
         ELSE open_dispute_loop_any_kind(
                     [self EXCEPT !.disputed_transactions[t.tx] = Some(r)],
                     t, i + 1)

\* The loop of open_dispute from index i on: every other transaction of the
\* history with the tx id of t is visited in arrival order.
RECURSIVE open_dispute_loop(_, _, _)
open_dispute_loop(self, t, i) ==
    IF i > Len(self.transactions) THEN self
    ELSE LET r == self.transactions[i] IN
         IF r = t \/ r.tx /= t.tx THEN open_dispute_loop(self, t, i + 1)
         ELSE IF r.kind = "Deposit"
              THEN open_dispute_loop(
                     [self EXCEPT !.snapshot.held = @ + r.amount,
                                  !.disputed_transactions[t.tx] = Some(r)],
                     t, i + 1)
         ELSE IF r.kind = "Withdraw"
              THEN open_dispute_loop(
                     [self EXCEPT !.snapshot.total = @ + r.amount,
                                  !.snapshot.held = @ + r.amount,
                                  !.disputed_transactions[t.tx] = Some(r)],
                     t, i + 1)
         ELSE open_dispute_loop(self, t, i + 1)

\* open_dispute without the early return on an already recorded dispute.
open_dispute_unguarded(self, t) == open_dispute_loop(self, t, 1)

open_dispute(self, t) ==
    IF get_disputed_transaction(self, t) /= None THEN self
    ELSE open_dispute_loop(self, t, 1)

\* The ChargeBack arm without the check of snapshot.locked.
chargeback_arm_ignores_lock(self, t) ==
    LET disp == get_disputed_transaction(self, t) IN
    IF disp /= None THEN unwrap(apply_changeback(self, disp[1]))
    ELSE [acc |-> self, res |-> "Ok"]

\* The ChargeBack arm of add_transaction.
chargeback_arm(self, t) ==
    IF self.snapshot.locked THEN Ok(self)
    ELSE LET disp == get_disputed_transaction(self, t) IN
         IF disp /= None THEN unwrap(apply_changeback(self, disp[1]))
         ELSE Ok(self)

\* The Resolve arm of add_transaction.
resolve_arm(self, t) ==
    LET disp == get_disputed_transaction(self, t) IN
    IF disp /= None THEN unwrap(resolve(self, disp[1]))
    ELSE Ok(self)

\* add_transaction that only records a transaction once the account is locked.
add_transaction_frozen_when_locked(self, t) ==
    IF self.client /= t.client THEN Err(self)
    ELSE LET pushed == [self EXCEPT !.transactions = Append(@, t)] IN
         IF self.snapshot.locked THEN Ok(pushed)
         ELSE CASE t.kind = "Deposit" ->
                     Ok([pushed EXCEPT !.snapshot.total = @ + t.amount])
                [] t.kind = "Withdraw" ->
                     Ok([pushed EXCEPT !.snapshot.total = @ - t.amount])
                [] t.kind = "Dispute" -> Ok(open_dispute(pushed, t))
                [] t.kind = "ChargeBack" -> chargeback_arm(pushed, t)
                [] t.kind = "Resolve" -> resolve_arm(pushed, t)

\* add_transaction that refuses a Withdraw of more than total - held.
add_transaction_checks_funds(self, t) ==
    IF self.client /= t.client THEN Err(self)
    ELSE LET pushed == [self EXCEPT !.transactions = Append(@, t)] IN
         CASE t.kind = "Deposit" ->
                Ok([pushed EXCEPT !.snapshot.total = @ + t.amount])
           [] t.kind = "Withdraw" ->
                IF get_available(self.snapshot) < t.amount THEN Ok(pushed)
                ELSE Ok([pushed EXCEPT !.snapshot.total = @ - t.amount])
           [] t.kind = "Dispute" -> Ok(open_dispute(pushed, t))
           [] t.kind = "ChargeBack" -> chargeback_arm(pushed, t)
           [] t.kind = "Resolve" -> resolve_arm(pushed, t)

\* add_transaction without the check of the transaction's client.
add_transaction_any_client(self, t) ==
    LET pushed == [self EXCEPT !.transactions = Append(@, t)] IN
    CASE t.kind = "Deposit" ->
           Ok([pushed EXCEPT !.snapshot.total = @ + t.amount])
      [] t.kind = "Withdraw" ->
           Ok([pushed EXCEPT !.snapshot.total = @ - t.amount])
      [] t.kind = "Dispute" -> Ok(open_dispute(pushed, t))
      [] t.kind = "ChargeBack" -> chargeback_arm(pushed, t)
      [] t.kind = "Resolve" -> resolve_arm(pushed, t)

add_transaction(self, t) ==
    IF self.client /= t.client THEN Err(self)
    ELSE LET pushed == [self EXCEPT !.transactions = Append(@, t)] IN
         CASE t.kind = "Deposit" ->
                Ok([pushed EXCEPT !.snapshot.total = @ + t.amount])
           [] t.kind = "Withdraw" ->
                Ok([pushed EXCEPT !.snapshot.total = @ - t.amount])
           [] t.kind = "Dispute" -> Ok(open_dispute(pushed, t))
           [] t.kind = "ChargeBack" -> chargeback_arm(pushed, t)
           [] t.kind = "Resolve" -> resolve_arm(pushed, t)

(***************************************************************************)
(* The Account of transaction.rs: it keeps the history only, and            *)
(* take_snapshot derives total, held and locked by scanning it.            *)
(***************************************************************************)
\* open_dispute from index i on: every other transaction of the whole history
\* with the tx id of t adds its amount to the snapshot s.
RECURSIVE scan_open_dispute(_, _, _, _)
scan_open_dispute(transactions, t, s, i) ==
    IF i > Len(transactions) THEN s
    ELSE LET r == transactions[i] IN
         IF r = t \/ r.tx /= t.tx THEN scan_open_dispute(transactions, t, s, i + 1)
         ELSE IF r.kind = "Deposit"
              THEN scan_open_dispute(transactions, t,
                                     [s EXCEPT !.held = @ + r.amount], i + 1)
         ELSE IF r.kind = "Withdraw"
              THEN scan_open_dispute(transactions, t,
                                     [s EXCEPT !.total = @ + r.amount,
                                               !.held = @ + r.amount], i + 1)
         ELSE scan_open_dispute(transactions, t, s, i + 1)

\* The last Deposit or Withdraw of processing with the tx id of cashback, when
\* processing also holds a Dispute with that tx id; None otherwise.
scan_get_disputed_transaction(cashback, processing) ==
    LET related == {i \in 1..Len(processing) :
                       processing[i] /= cashback /\ processing[i].tx = cashback.tx}
        dispute == {i \in related : processing[i].kind = "Dispute"}
        reversed == {i \in related : processing[i].kind \in Monetary}
    IN  IF dispute /= {} /\ reversed /= {}
        THEN Some(processing[CHOOSE i \in reversed : \A j \in reversed : j <= i])
        ELSE None

\* processing.remove(processing.iter().position(|x| x == disp)).
scan_remove(processing, disp) ==
    LET pos == CHOOSE i \in 1..Len(processing) :
                  /\ processing[i] = disp
                  /\ \A j \in 1..(i - 1) : processing[j] /= disp
    IN  SubSeq(processing, 1, pos - 1) \o SubSeq(processing, pos + 1, Len(processing))

scan_apply_changeback(t, s) ==
    [s EXCEPT !.total = @ - t.amount, !.held = @ - t.amount, !.locked = TRUE]

scan_resolve(t, s) == [s EXCEPT !.held = @ - t.amount]

\* The loop of take_snapshot from index i on, with the snapshot and the
\* processing list in st.
RECURSIVE scan_loop(_, _, _)
scan_loop(transactions, st, i) ==
    IF i > Len(transactions) THEN st.s
    ELSE LET t == transactions[i]
             disp == scan_get_disputed_transaction(t, st.processing)
         IN  CASE t.kind = "Deposit" ->
                    scan_loop(transactions,
                              [st EXCEPT !.s.total = @ + t.amount], i + 1)
               [] t.kind = "Withdraw" ->
                    scan_loop(transactions,
                              [st EXCEPT !.s.total = @ - t.amount], i + 1)
               [] t.kind = "Dispute" ->
                    scan_loop(transactions,
                              [st EXCEPT !.s = scan_open_dispute(transactions, t, @, 1)],
                              i + 1)
               [] t.kind = "ChargeBack" ->
                    IF st.s.locked \/ disp = None
                    THEN scan_loop(transactions, st, i + 1)
                    ELSE scan_loop(transactions,
                                   [s |-> scan_apply_changeback(disp[1], st.s),
                                    processing |-> scan_remove(st.processing, disp[1])],
                                   i + 1)
               [] t.kind = "Resolve" ->
                    IF disp = None
                    THEN scan_loop(transactions, st, i + 1)
                    ELSE scan_loop(transactions,
                                   [s |-> scan_resolve(disp[1], st.s),
                                    processing |-> scan_remove(st.processing, disp[1])],
                                   i + 1)

\* take_snapshot of the Account of transaction.rs with client `client` and
\* history `transactions`.
scan_take_snapshot(client, transactions) ==
    scan_loop(transactions,
              [s |-> Snapshot_new(client), processing |-> transactions], 1)

(***************************************************************************)
(* Portfolio: the accounts in the order they were created, and the cursor  *)
(* of get_snapshot_line.                                                   *)
(***************************************************************************)
Portfolio_new == [accounts |-> <<>>, pos |-> 0]

\* The index of the first account of client `client` from index i on, 0 when
\* there is none: the loop of Portfolio::add_transaction.
RECURSIVE find_account(_, _, _)
find_account(accounts, client, i) ==
    IF i > Len(accounts) THEN 0
    ELSE IF accounts[i].client = client THEN i
    ELSE find_account(accounts, client, i + 1)

\* Portfolio::add_transaction that stores the account it changed in the first
\* place of the list.
Portfolio_add_transaction_stores_first(self, t) ==
    LET i == find_account(self.accounts, t.client, 1) IN
    IF i /= 0
    THEN LET r == add_transaction(self.accounts[i], t) IN
         IF r.res = "Err" THEN [p |-> self, res |-> "Err"]
         ELSE [p |-> [self EXCEPT !.accounts[1] = r.acc], res |-> r.res]
    ELSE LET r == unwrap(add_transaction(Account_new(t.client), t)) IN
         IF r.res = "Panic" THEN [p |-> self, res |-> "Panic"]
         ELSE [p |-> [self EXCEPT !.accounts = Append(@, r.acc)], res |-> "Ok"]

\* Portfolio::add_transaction that puts a new account in front of the others.
Portfolio_add_transaction_prepends(self, t) ==
    LET i == find_account(self.accounts, t.client, 1) IN
    IF i /= 0
    THEN LET r == add_transaction(self.accounts[i], t) IN
         IF r.res = "Err" THEN [p |-> self, res |-> "Err"]
         ELSE [p |-> [self EXCEPT !.accounts[i] = r.acc], res |-> r.res]
    ELSE LET r == unwrap(add_transaction(Account_new(t.client), t)) IN
         IF r.res = "Panic" THEN [p |-> self, res |-> "Panic"]
         ELSE [p |-> [self EXCEPT !.accounts = <<r.acc>> \o @], res |-> "Ok"]

\* Portfolio::add_transaction that creates an account for every transaction.
Portfolio_add_transaction_always_new(self, t) ==
    LET r == unwrap(add_transaction(Account_new(t.client), t)) IN
    IF r.res = "Panic" THEN [p |-> self, res |-> "Panic"]
    ELSE [p |-> [self EXCEPT !.accounts = Append(@, r.acc)], res |-> "Ok"]

Portfolio_add_transaction(self, t) ==
    LET i == find_account(self.accounts, t.client, 1) IN
    IF i /= 0
    THEN LET r == add_transaction(self.accounts[i], t) IN
         IF r.res = "Err" THEN [p |-> self, res |-> "Err"]
         ELSE [p |-> [self EXCEPT !.accounts[i] = r.acc], res |-> r.res]
    ELSE LET r == unwrap(add_transaction(Account_new(t.client), t)) IN
         IF r.res = "Panic" THEN [p |-> self, res |-> "Panic"]
         ELSE [p |-> [self EXCEPT !.accounts = Append(@, r.acc)], res |-> "Ok"]

\* get_snapshot_line that moves the cursor two places at a time.
get_snapshot_line_skips(self) ==
    IF self.pos + 1 <= Len(self.accounts)
    THEN [p |-> [self EXCEPT !.pos = @ + 2],
          line |-> Some(take_snapshot(self.accounts[self.pos + 1]))]
    ELSE [p |-> self, line |-> None]

\* get_snapshot_line that starts over once it has returned None.
get_snapshot_line_rewinds(self) ==
    IF self.pos + 1 <= Len(self.accounts)
    THEN [p |-> [self EXCEPT !.pos = @ + 1],
          line |-> Some(take_snapshot(self.accounts[self.pos + 1]))]
    ELSE [p |-> [self EXCEPT !.pos = 0], line |-> None]

\* The returned Option<Snapshot> and the portfolio as the call leaves it.
get_snapshot_line(self) ==
    IF self.pos + 1 <= Len(self.accounts)
    THEN [p |-> [self EXCEPT !.pos = @ + 1],
          line |-> Some(take_snapshot(self.accounts[self.pos + 1]))]
    ELSE [p |-> self, line |-> None]

\* write() that reports total as the available funds.
write_available_is_total(s) ==
    [client |-> s.client,
     total |-> s.total,
     held |-> s.held,
     available |-> s.total,
     locked |-> s.locked]

\* The row write() serializes for a snapshot.
write(s) ==
    [client |-> s.client,
     total |-> s.total,
     held |-> s.held,
     available |-> get_available(s),
     locked |-> s.locked]

(***************************************************************************)
(* The reader: the records of the input and what get_content does with one.*)
(***************************************************************************)
RunTxIds == {DepositTx}
RunAmounts == {NegativeAmount, 0, WithdrawAmount}
RowTypes == {"deposit", "withdrawal", "dispute", "chargeback", "resolve", "other"}

\* The records of the input: deposits and withdrawals carry an amount, the
\* other records none.
Rows ==
    [type : {"deposit", "withdrawal"}, client : Clients, tx : RunTxIds,
     amount : RunAmounts]
    \cup [type : RowTypes \ {"deposit", "withdrawal"}, client : Clients,
          tx : RunTxIds, amount : {NoAmount}]

\* The transaction get_content constructs for a record: None when the
\* constructor fails.  Only called for the five known types.
construct(record) ==
    CASE record.type = "deposit" ->
           create_deposit(record.client, record.tx, record.amount)
      [] record.type = "withdrawal" ->
           create_withdraw(record.client, record.tx, record.amount)
      [] record.type = "dispute" -> create_dispute(record.client, record.tx)
      [] record.type = "chargeback" -> create_chargeback(record.client, record.tx)
      [] record.type = "resolve" -> create_resolve(record.client, record.tx)

(***************************************************************************)
(* State: one Account, the result of the last add_transaction on it, and   *)
(* the snapshot taken just before that call.                               *)
(***************************************************************************)
VARIABLES account, result, before

(***************************************************************************)
(* State of a run: the Portfolio get_content fills, where the run stands   *)
(* ("Reading" the input, "Failed" on a rejected record, "Emitting" the     *)
(* rows, "Done"), the record read last and the transaction constructed     *)
(* from it, the result of the last Portfolio::add_transaction, the         *)
(* transactions applied so far in input order, the rows written, and what  *)
(* get_snapshot_line returned to calls made after the emit loop ended.     *)
(***************************************************************************)
VARIABLES portfolio, status, row, made, presult, applied, written, again

accountvars == <<account, result, before>>

runvars == <<portfolio, status, row, made, presult, applied, written, again>>

vars == <<account, result, before,
          portfolio, status, row, made, presult, applied, written, again>>

\* The account of the tests, newly created.
InitAccount ==
    /\ account = Account_new(AccountClient)
    /\ result = "None"
    /\ before = take_snapshot(Account_new(AccountClient))

\* The run at its start: an empty Portfolio and nothing read.
InitRun ==
    /\ portfolio = Portfolio_new
    /\ status = "Reading"
    /\ row = None
    /\ made = None
    /\ presult = "None"
    /\ applied = <<>>
    /\ written = <<>>
    /\ again = <<>>

Init == InitAccount /\ InitRun

\* One call account.add_transaction(t), bracketed by take_snapshot as in the tests.
Apply(t) ==
    LET r == add_transaction(account, t) IN
    /\ result /= "Panic"
    /\ before' = take_snapshot(account)
    /\ account' = r.acc
    /\ result' = r.res
    /\ UNCHANGED runvars

\* Is t a transaction of kind `kind` that the caller routes to this account while
\* the history is shorter than n?
Routed(t, n, kind) ==
    /\ t.client = account.client
    /\ t.kind = kind
    /\ Len(account.transactions) < n

Deposit(T, n) == \E t \in T : Routed(t, n, "Deposit") /\ Apply(t)

Withdraw(T, n) == \E t \in T : Routed(t, n, "Withdraw") /\ Apply(t)

Dispute(T, n) == \E t \in T : Routed(t, n, "Dispute") /\ Apply(t)

Resolve(T, n) == \E t \in T : Routed(t, n, "Resolve") /\ Apply(t)

ChargeBack(T, n) == \E t \in T : Routed(t, n, "ChargeBack") /\ Apply(t)

\* A transaction of another client handed to this account.
Mismatch(T) ==
    \E t \in T :
        /\ t.client /= account.client
        /\ Apply(t)

Next ==
    \/ Deposit(Transactions, MaxLen)
    \/ Withdraw(Transactions, MaxLen)
    \/ Dispute(Transactions, MaxLen)
    \/ Resolve(Transactions, MaxLen)
    \/ ChargeBack(Transactions, MaxLen)
    \/ Mismatch(Transactions)

Spec == Init /\ [][Next]_vars

NextExample ==
    \/ Deposit(ExampleTransactions, MaxLenEx)
    \/ Withdraw(ExampleTransactions, MaxLenEx)
    \/ Dispute(ExampleTransactions, MaxLenEx)
    \/ Resolve(ExampleTransactions, MaxLenEx)
    \/ ChargeBack(ExampleTransactions, MaxLenEx)

SpecExample == Init /\ [][NextExample]_vars

\* get_content that skips a record whose construction failed and reads on.
ReadRecord_skips_invalid(record) ==
    LET t == construct(record)
        r == Portfolio_add_transaction(portfolio, t[1])
    IN  /\ status = "Reading"
        /\ Len(applied) < MaxRows
        /\ row' = Some(record)
        /\ made' = t
        /\ IF t = None
           THEN UNCHANGED <<portfolio, presult, applied, status>>
           ELSE /\ portfolio' = r.p
                /\ presult' = r.res
                /\ applied' = Append(applied, t[1])
                /\ status' = IF r.res = "Ok" THEN "Reading" ELSE "Failed"
        /\ UNCHANGED <<written, again>>
        /\ UNCHANGED accountvars

\* get_content on a record of one of the five known types: construct the
\* transaction; a failed construction ends the run, otherwise the transaction
\* goes to portfolio.add_transaction, whose result is unwrapped.
ReadRecord(record) ==
    LET t == construct(record)
        r == Portfolio_add_transaction(portfolio, t[1])
    IN  /\ status = "Reading"
        /\ Len(applied) < MaxRows
        /\ row' = Some(record)
        /\ made' = t
        /\ IF t = None
           THEN /\ status' = "Failed"
                /\ UNCHANGED <<portfolio, presult, applied>>
           ELSE /\ portfolio' = r.p
                /\ presult' = r.res
                /\ applied' = Append(applied, t[1])
                /\ status' = IF r.res = "Ok" THEN "Reading" ELSE "Failed"
        /\ UNCHANGED <<written, again>>
        /\ UNCHANGED accountvars

ReadDeposit == \E record \in Rows : record.type = "deposit" /\ ReadRecord(record)

ReadWithdrawal ==
    \E record \in Rows : record.type = "withdrawal" /\ ReadRecord(record)

ReadDispute == \E record \in Rows : record.type = "dispute" /\ ReadRecord(record)

ReadChargeBack ==
    \E record \in Rows : record.type = "chargeback" /\ ReadRecord(record)

ReadResolve == \E record \in Rows : record.type = "resolve" /\ ReadRecord(record)

\* A record of any other type is skipped.
ReadOther ==
    \E record \in Rows :
        /\ record.type = "other"
        /\ status = "Reading"
        /\ Len(applied) < MaxRows
        /\ row' = Some(record)
        /\ made' = None
        /\ UNCHANGED <<portfolio, status, presult, applied, written, again>>
        /\ UNCHANGED accountvars

\* The input ends: get_content returns the Portfolio and run starts its loop.
EndOfInput ==
    /\ status = "Reading"
    /\ status' = "Emitting"
    /\ UNCHANGED <<portfolio, row, made, presult, applied, written, again>>
    /\ UNCHANGED accountvars

\* One turn of the loop of run: write the next snapshot, or break on None.
EmitLine ==
    LET r == get_snapshot_line(portfolio) IN
    /\ status = "Emitting"
    /\ portfolio' = r.p
    /\ IF r.line /= None
       THEN written' = Append(written, write(r.line[1])) /\ status' = status
       ELSE written' = written /\ status' = "Done"
    /\ UNCHANGED <<row, made, presult, applied, again>>
    /\ UNCHANGED accountvars

\* A further call of get_snapshot_line on the same Portfolio after the loop
\* has ended.
ReadAgain ==
    LET r == get_snapshot_line(portfolio) IN
    /\ status = "Done"
    /\ Len(again) < MaxAgain
    /\ portfolio' = r.p
    /\ again' = Append(again, r.line)
    /\ UNCHANGED <<status, row, made, presult, applied, written>>
    /\ UNCHANGED accountvars

NextRun ==
    \/ ReadDeposit
    \/ ReadWithdrawal
    \/ ReadDispute
    \/ ReadChargeBack
    \/ ReadResolve
    \/ ReadOther
    \/ EndOfInput
    \/ EmitLine
    \/ ReadAgain

SpecRun == Init /\ [][NextRun]_vars

\* The run with its emit loop running on: run() is sequential code, so once the
\* loop is entered each of its turns is taken.
SpecRunFair == SpecRun /\ WF_vars(EmitLine)

(***************************************************************************)
(* Vocabulary of the properties.                                           *)
(***************************************************************************)
hist == account.transactions

\* The last call passed the client check, so it applied the last transaction of
\* the history, and `before` is the snapshot it found.
Called == result \in {"Ok", "Panic"}

last == hist[Len(hist)]

\* The last call applied a transaction of kind `kind`.
LastIs(kind) == Called /\ last.kind = kind

Front(h) == SubSeq(h, 1, Len(h) - 1)

\* The total, held and locked the last call found are the ones it left.
BalanceUnchanged == account.snapshot = before

\* The Deposits and Withdraws of h with tx id tx (positions in h).
MonetaryOf(h, tx) == {i \in 1..Len(h) : h[i].tx = tx /\ h[i].kind \in Monetary}

\* The account after the transactions of h, applied in order to a new account.
RECURSIVE Replay(_)
Replay(h) ==
    IF h = <<>> THEN Account_new(AccountClient)
    ELSE add_transaction(Replay(Front(h)), h[Len(h)]).acc

\* The dispute lifecycle the specification gives every tx id, read off a history:
\* NoDispute -Dispute-> Open -Resolve-> Resolved (no dispute, may be disputed
\* again), Open -ChargeBack on an unlocked account-> ChargedBack (terminal).
\* A Dispute opens only when the history already holds a Deposit or Withdraw
\* with its tx id.
RECURSIVE Lifecycle(_)
Lifecycle(h) ==
    IF h = <<>> THEN [x \in TxIds |-> "NoDispute"]
    ELSE LET s == Lifecycle(Front(h))
             t == h[Len(h)]
             lockedBefore == \E x \in TxIds : s[x] = "ChargedBack"
         IN  IF /\ t.kind = "Dispute"
                /\ s[t.tx] \in {"NoDispute", "Resolved"}
                /\ MonetaryOf(Front(h), t.tx) /= {}
             THEN [s EXCEPT ![t.tx] = "Open"]
             ELSE IF t.kind = "Resolve" /\ s[t.tx] = "Open"
             THEN [s EXCEPT ![t.tx] = "Resolved"]
             ELSE IF t.kind = "ChargeBack" /\ s[t.tx] = "Open" /\ ~lockedBefore
             THEN [s EXCEPT ![t.tx] = "ChargedBack"]
             ELSE s

\* The lifecycle state of every tx id just before the last call.
StatusBefore == Lifecycle(Front(hist))

\* C1: in every reachable state of an Account, held >= 0.
C1_HeldNonNegative == account.snapshot.held >= 0

\* C2: a Resolve(tx) that finds the dispute of tx already closed by an earlier
\* Resolve(tx), with no new Dispute(tx) since, leaves total, held and locked
\* unchanged.
C2_ResolveAtMostOnce ==
    (LastIs("Resolve") /\ StatusBefore[last.tx] = "Resolved")
        => (result = "Ok" /\ BalanceUnchanged)

\* C3: on an unlocked account, a ChargeBack(tx) whose dispute was never opened,
\* or was opened and closed by Resolve(tx), leaves total and held unchanged and
\* does not set locked.
C3_ChargeBackNeedsOpenDispute ==
    (/\ LastIs("ChargeBack")
     /\ ~before.locked
     /\ StatusBefore[last.tx] \in {"NoDispute", "Resolved"})
        => (result = "Ok" /\ BalanceUnchanged)

\* C4: once ChargeBack(tx) has taken effect, every later Dispute(tx),
\* Resolve(tx) or ChargeBack(tx) leaves total and held unchanged.
C4_ChargedBackIsTerminal ==
    (/\ Called
     /\ last.kind \in {"Dispute", "Resolve", "ChargeBack"}
     /\ StatusBefore[last.tx] = "ChargedBack")
        => (/\ account.snapshot.total = before.total
            /\ account.snapshot.held = before.held)

\* C5: on a locked account every ChargeBack, for any tx id, returns Ok and
\* leaves total, held and locked unchanged.
C5_LockedIgnoresChargeBack ==
    (LastIs("ChargeBack") /\ before.locked)
        => (result = "Ok" /\ BalanceUnchanged)

\* C5 witness: a second ChargeBack(tx) right after the ChargeBack(tx) that took
\* effect and locked the account.
C5_Witness ==
    /\ Called
    /\ Len(hist) >= 2
    /\ last.kind = "ChargeBack"
    /\ hist[Len(hist) - 1] = last
    /\ before.locked
    /\ StatusBefore[last.tx] = "ChargedBack"
    /\ Lifecycle(Front(Front(hist)))[last.tx] = "Open"

\* The worked example: Deposit(62.555) tx 1, Withdraw(30.0000) tx 2,
\* Dispute(2), ChargeBack(2), ChargeBack(2).
ExampleHistory ==
    << create_deposit(AccountClient, DepositTx, DepositAmount)[1],
       create_withdraw(AccountClient, WithdrawTx, WithdrawAmount)[1],
       create_dispute(AccountClient, WithdrawTx)[1],
       create_chargeback(AccountClient, WithdrawTx)[1],
       create_chargeback(AccountClient, WithdrawTx)[1] >>

\* C6 as stated: the worked example ends with total = 0 and held = 0.
C6_ExampleEndsAtZero ==
    hist = ExampleHistory
        => (account.snapshot.total = 0 /\ account.snapshot.held = 0)

\* C6 amended: the worked example ends with total = 62.555 - 30 = 32.555 and
\* held = 0 on a locked account; the first ChargeBack takes total from 62.555
\* and held from 30 (their disputed values) down by 30 each, and the second
\* ChargeBack changes nothing.
C6_ExampleEndsAtDifference ==
    /\ hist = Front(ExampleHistory)
        => (/\ result = "Ok"
            /\ before.total = DepositAmount
            /\ before.held = WithdrawAmount
            /\ account.snapshot.total = before.total - WithdrawAmount
            /\ account.snapshot.held = before.held - WithdrawAmount
            /\ account.snapshot.locked)
    /\ hist = ExampleHistory
        => (/\ result = "Ok"
            /\ account.snapshot.total = DepositAmount - WithdrawAmount
            /\ account.snapshot.held = 0
            /\ account.snapshot.locked
            /\ BalanceUnchanged)

\* C6 witness: the five transactions of the worked example have been applied.
C6_Witness == hist = ExampleHistory /\ result = "Ok"

\* The dispute of the last transaction's tx id was open when it was applied, the
\* history then held exactly one Deposit or Withdraw with that tx id, and that
\* one is of kind `kind`.
ClosesOpenDisputeOn(kind) ==
    /\ Called
    /\ StatusBefore[last.tx] = "Open"
    /\ \E i \in MonetaryOf(Front(hist), last.tx) :
          /\ MonetaryOf(Front(hist), last.tx) = {i}
          /\ hist[i].kind = kind

\* The amount of the one Deposit or Withdraw the last transaction refers to.
ReferencedAmount ==
    hist[CHOOSE i \in MonetaryOf(Front(hist), last.tx) : TRUE].amount

\* The last two transactions are Dispute(tx) and then a transaction naming the
\* same tx, and that Dispute opened the dispute (tx was in NoDispute before it).
JustOpened ==
    /\ Len(hist) >= 2
    /\ hist[Len(hist) - 1].kind = "Dispute"
    /\ hist[Len(hist) - 1].tx = last.tx
    /\ Lifecycle(Front(Front(hist)))[last.tx] \in {"NoDispute", "Resolved"}

\* The snapshot before the next-to-last transaction was applied.
BeforeDispute == take_snapshot(Replay(Front(Front(hist))))

\* C7, the step: a ChargeBack(tx) on an unlocked account with the dispute of tx
\* open sets held' = held - a, total' = total - a and locked' = TRUE.
C7_ChargeBackStep ==
    \A k \in Monetary :
        (LastIs("ChargeBack") /\ ~before.locked /\ ClosesOpenDisputeOn(k))
            => (/\ result = "Ok"
                /\ account.snapshot.held = before.held - ReferencedAmount
                /\ account.snapshot.total = before.total - ReferencedAmount
                /\ account.snapshot.locked)

\* C7, the consequence: a charged-back Withdraw returns total to its value just
\* before the dispute was opened.
C7_WithdrawReturnsTotal ==
    (/\ LastIs("ChargeBack")
     /\ ~before.locked
     /\ ClosesOpenDisputeOn("Withdraw")
     /\ JustOpened)
        => account.snapshot.total = BeforeDispute.total

\* C7: the ChargeBack step and its consequence for a charged-back Withdraw.
C7_ChargeBackFinalizes == C7_ChargeBackStep /\ C7_WithdrawReturnsTotal

\* C8: a Dispute(tx) applied when no dispute is open for tx and the history holds
\* one Deposit or Withdraw with that tx id, of amount a, opens the dispute: for a
\* Deposit held' = held + a and total' = total, for a Withdraw held' = held + a
\* and total' = total + a; locked is unchanged.
C8_DisputeOpens ==
    (/\ LastIs("Dispute")
     /\ StatusBefore[last.tx] \in {"NoDispute", "Resolved"}
     /\ Cardinality(MonetaryOf(Front(hist), last.tx)) = 1)
        => LET r == hist[CHOOSE i \in MonetaryOf(Front(hist), last.tx) : TRUE] IN
           /\ result = "Ok"
           /\ account.snapshot.held = before.held + r.amount
           /\ account.snapshot.total =
                 before.total + (IF r.kind = "Withdraw" THEN r.amount ELSE 0)
           /\ get_available(account.snapshot) =
                 get_available(before) - (IF r.kind = "Deposit" THEN r.amount ELSE 0)
           /\ account.snapshot.locked = before.locked

\* C9, the step: a Resolve(tx) with the dispute of tx open sets held' = held - a
\* and leaves total and locked.
C9_ResolveStep ==
    \A k \in Monetary :
        (LastIs("Resolve") /\ ClosesOpenDisputeOn(k))
            => (/\ result = "Ok"
                /\ account.snapshot.held = before.held - ReferencedAmount
                /\ account.snapshot.total = before.total
                /\ account.snapshot.locked = before.locked)

\* C9, the consequence: Dispute(tx) then Resolve(tx) on a Deposit restores total,
\* held and available to their values before the Dispute; on a Withdraw it
\* leaves held at its value before the Dispute and total at the reversed value.
C9_DisputeResolveRoundTrip ==
    /\ (LastIs("Resolve") /\ ClosesOpenDisputeOn("Deposit") /\ JustOpened)
        => (/\ account.snapshot.total = BeforeDispute.total
            /\ account.snapshot.held = BeforeDispute.held
            /\ get_available(account.snapshot) = get_available(BeforeDispute))
    /\ (LastIs("Resolve") /\ ClosesOpenDisputeOn("Withdraw") /\ JustOpened)
        => (/\ account.snapshot.held = BeforeDispute.held
            /\ account.snapshot.total = BeforeDispute.total + ReferencedAmount)

\* C9: the Resolve step and the round trip Dispute, Resolve.
C9_ResolveReversesHold == C9_ResolveStep /\ C9_DisputeResolveRoundTrip

\* C10: a Dispute(tx) applied while the dispute of tx is open leaves total, held
\* and locked unchanged.
C10_OneOpenDisputePerTx ==
    (LastIs("Dispute") /\ StatusBefore[last.tx] = "Open")
        => (result = "Ok" /\ BalanceUnchanged)

\* C10 witness: a second Dispute(tx) right after the Dispute(tx) that raised
\* held by the amount of the disputed transaction.
C10_Witness ==
    /\ LastIs("Dispute")
    /\ StatusBefore[last.tx] = "Open"
    /\ JustOpened
    /\ before.held > BeforeDispute.held
    /\ BalanceUnchanged

\* C11: a Dispute(tx) applied after Dispute(tx) and Resolve(tx) have opened and
\* closed the dispute of tx opens it again: held rises by the amount of the
\* referenced transaction, and total as well when that one is a Withdraw.
C11_ReDisputeReopens ==
    (/\ LastIs("Dispute")
     /\ StatusBefore[last.tx] = "Resolved"
     /\ Cardinality(MonetaryOf(Front(hist), last.tx)) = 1)
        => (/\ account.snapshot.held = before.held + ReferencedAmount
            /\ \A i \in MonetaryOf(Front(hist), last.tx) :
                  account.snapshot.total =
                     before.total
                        + (IF hist[i].kind = "Withdraw" THEN hist[i].amount ELSE 0))

\* C12: a Dispute, Resolve or ChargeBack whose tx id is the id of no Deposit or
\* Withdraw in the account's history returns Ok and leaves total, held and
\* locked unchanged.
C12_MissingReferenceIsNoOp ==
    (/\ Called
     /\ last.kind \in {"Dispute", "Resolve", "ChargeBack"}
     /\ MonetaryOf(Front(hist), last.tx) = {})
        => (result = "Ok" /\ BalanceUnchanged)

\* C12 witness: a Dispute of a tx id the history does not hold, applied to an
\* account that holds a Deposit or Withdraw under another tx id and a nonzero
\* total.
C12_Witness ==
    /\ LastIs("Dispute")
    /\ MonetaryOf(Front(hist), last.tx) = {}
    /\ \E x \in TxIds : MonetaryOf(Front(hist), x) /= {}
    /\ before.total /= 0
    /\ result = "Ok"

\* C13: locked is false on a new account, a call that finds locked true leaves
\* it true, and a call that finds it false sets it only when it is a ChargeBack
\* on the open dispute of its tx id.
C13_LockedMonotonic ==
    /\ hist = <<>> => ~account.snapshot.locked
    /\ (Called /\ before.locked) => account.snapshot.locked
    /\ (Called /\ ~before.locked /\ account.snapshot.locked)
          => (last.kind = "ChargeBack" /\ StatusBefore[last.tx] = "Open")

\* C15: add_transaction with a transaction of another client returns the error
\* and the account it leaves is the account it found: history, dispute records,
\* total, held and locked.
C15_ClientMismatchRejected ==
    /\ \A t \in Transactions :
          t.client /= account.client
             => add_transaction(account, t) = [acc |-> account, res |-> "Err"]
    /\ result = "Err" => BalanceUnchanged

\* C15 witness: the error was returned by an account that holds a history and
\* an open dispute.
C15_Witness ==
    /\ result = "Err"
    /\ Len(hist) >= 2
    /\ account.snapshot.held > 0
    /\ \E x \in TxIds : account.disputed_transactions[x] /= None

(***************************************************************************)
(* Vocabulary of the properties of a run.                                  *)
(***************************************************************************)
accounts == portfolio.accounts

\* The clients of h in the order of their first transaction.
RECURSIVE FirstSeen(_)
FirstSeen(h) ==
    IF h = <<>> THEN <<>>
    ELSE LET f == FirstSeen(Front(h))
             c == h[Len(h)].client
         IN  IF \E i \in 1..Len(f) : f[i] = c THEN f ELSE Append(f, c)

\* The account of client c after the transactions of c in h, applied in order
\* to a new account of c.
RECURSIVE ReplayFor(_, _)
ReplayFor(c, h) ==
    IF h = <<>> THEN Account_new(c)
    ELSE IF h[Len(h)].client = c
         THEN add_transaction(ReplayFor(c, Front(h)), h[Len(h)]).acc
         ELSE ReplayFor(c, Front(h))

\* The record read last is of type `type`.
RowIs(type) == row /= None /\ row[1].type = type

\* C14: the available of every account's snapshot, and of every row written, is
\* the total minus the held of the account it is taken from.
C14_BalanceIdentity ==
    /\ \A i \in 1..Len(accounts) :
          get_available(take_snapshot(accounts[i]))
             = accounts[i].snapshot.total - accounts[i].snapshot.held
    /\ \A i \in 1..Len(written) :
          /\ written[i].total = accounts[i].snapshot.total
          /\ written[i].held = accounts[i].snapshot.held
          /\ written[i].available = written[i].total - written[i].held

\* C14 witness: a row was written for an account with funds held, so that
\* available and total differ.
C14_Witness ==
    \E i \in 1..Len(written) :
        written[i].held > 0 /\ written[i].available /= written[i].total

\* C16: create_deposit and create_withdraw fail exactly on an amount below zero,
\* the other constructors never fail, and a record whose construction failed
\* ends the run with the portfolio as the transactions applied before it left
\* it.
C16_NegativeAmountRejected ==
    /\ \A cl \in Clients, tx \in TxIds, a \in RunAmounts \cup Amounts :
          /\ (create_deposit(cl, tx, a) = None) <=> (a < 0)
          /\ (create_withdraw(cl, tx, a) = None) <=> (a < 0)
          /\ create_dispute(cl, tx) /= None
          /\ create_resolve(cl, tx) /= None
          /\ create_chargeback(cl, tx) /= None
    /\ (row /= None /\ row[1].type /= "other")
          => ((made = None) <=> (row[1].amount < 0))
    /\ (row /= None /\ row[1].type /= "other" /\ made = None)
          => (/\ status = "Failed"
              /\ Len(accounts) = Len(FirstSeen(applied))
              /\ \A i \in 1..Len(accounts) :
                    accounts[i] = ReplayFor(accounts[i].client, applied))

\* C16 witness: a deposit of a negative amount was read after transactions that
\* had created an account, and a deposit of amount zero was applied.
C16_Witness ==
    /\ RowIs("deposit")
    /\ row[1].amount < 0
    /\ status = "Failed"
    /\ Len(accounts) >= 1
    /\ \E i \in 1..Len(applied) :
          applied[i].kind = "Deposit" /\ applied[i].amount = 0

\* C17: the portfolio holds one account for each client with a transaction
\* applied and no other, no two accounts have the same client, and each account
\* is what the transactions of its client, applied in order to a new account
\* with total = 0, held = 0 and locked = false, make of it.
C17_OneAccountPerClient ==
    /\ {accounts[i].client : i \in 1..Len(accounts)}
          = {applied[j].client : j \in 1..Len(applied)}
    /\ \A i, j \in 1..Len(accounts) :
          accounts[i].client = accounts[j].client => i = j
    /\ \A i \in 1..Len(accounts) :
          accounts[i] = ReplayFor(accounts[i].client, applied)
    /\ \A c \in Clients :
          take_snapshot(Account_new(c))
             = [client |-> c, total |-> 0, held |-> 0, locked |-> FALSE]

\* C17 witness: two accounts, one of them with two transactions, the second of
\* which arrived after the other account was created.
C17_Witness ==
    /\ Len(accounts) = 2
    /\ Len(applied) = 3
    /\ applied[1].client = applied[3].client
    /\ applied[2].client /= applied[1].client
    /\ Len(accounts[1].transactions) = 2

\* C18: when the emit loop has ended, one row was written for each client with
\* a transaction applied, in the order of the clients' first transactions, and
\* each row is the snapshot of that client's account.
C18_SnapshotsInFirstSeenOrder ==
    status = "Done"
        => (/\ Len(written) = Len(FirstSeen(applied))
            /\ \A i \in 1..Len(written) :
                  /\ written[i].client = FirstSeen(applied)[i]
                  /\ written[i]
                        = write(take_snapshot(ReplayFor(FirstSeen(applied)[i], applied))))

\* C18 witness: two rows written, the client with the greater id first because
\* its transaction came first.
C18_Witness ==
    /\ status = "Done"
    /\ Len(written) = 2
    /\ written[1].client = OtherClient
    /\ written[2].client = AccountClient
    /\ applied[1].client = OtherClient

\* C19 as stated: a call of get_snapshot_line made after the first read has
\* ended starts a second read, so the first such call returns the snapshot of
\* the first account.
C19_SecondReadRepeats ==
    (status = "Done" /\ Len(again) >= 1 /\ Len(accounts) >= 1)
        => again[1] = Some(take_snapshot(accounts[1]))

\* C19 amended: the snapshots are read through a cursor that only moves
\* forward.  The first read returns the snapshot of every account in order and
\* leaves the cursor behind the last account; every later call returns None;
\* reading changes no account.
C19_SinglePassCursor ==
    /\ \A i \in 1..Len(again) : again[i] = None
    /\ status = "Emitting"
          => (portfolio.pos = Len(written) /\ portfolio.pos <= Len(accounts))
    /\ status = "Done"
          => (portfolio.pos = Len(accounts) /\ Len(written) = Len(accounts))
    /\ \A i \in 1..Len(written) : written[i] = write(take_snapshot(accounts[i]))
    /\ status \in {"Emitting", "Done"}
          => \A i \in 1..Len(accounts) :
                accounts[i] = ReplayFor(accounts[i].client, applied)

\* C19 witness: two further calls after a first read that returned two
\* snapshots.
C19_Witness ==
    /\ status = "Done"
    /\ Len(written) = 2
    /\ Len(again) = 2
    /\ again[2] = None

\* C20: every call of Portfolio.add_transaction returns Ok and none panics; the
\* run fails only on a record whose construction failed; every recorded
\* disputed transaction is a Deposit or a Withdraw.
C20_AddTransactionNeverFails ==
    /\ presult \in {"None", "Ok"}
    /\ status = "Failed" => made = None
    /\ \A i \in 1..Len(accounts), x \in TxIds :
          accounts[i].disputed_transactions[x] /= None
             => accounts[i].disputed_transactions[x][1].kind \in Monetary
    /\ \A t \in Transactions :
          Portfolio_add_transaction(portfolio, t).res = "Ok"

\* C20 witness: three transactions applied with result Ok, the last a Resolve
\* or ChargeBack that found a recorded dispute and changed the balance.
C20_Witness ==
    /\ presult = "Ok"
    /\ Len(applied) = 3
    /\ applied[3].kind \in {"Resolve", "ChargeBack"}
    /\ \E i \in 1..Len(accounts) :
          /\ accounts[i].client = applied[3].client
          /\ accounts[i].disputed_transactions[applied[3].tx] /= None
          /\ accounts[i].snapshot
                /= take_snapshot(ReplayFor(accounts[i].client, Front(applied)))

\* C21: a Deposit of amount a sets total' = total + a, a Withdraw of amount a
\* sets total' = total - a whatever total and held are; both return Ok and
\* leave held and locked unchanged.
C21_DepositWithdrawStep ==
    /\ LastIs("Deposit")
          => (/\ result = "Ok"
              /\ account.snapshot.total = before.total + last.amount
              /\ account.snapshot.held = before.held
              /\ account.snapshot.locked = before.locked)
    /\ LastIs("Withdraw")
          => (/\ result = "Ok"
              /\ account.snapshot.total = before.total - last.amount
              /\ account.snapshot.held = before.held
              /\ account.snapshot.locked = before.locked)

\* C21 witness: a Withdraw applied to an account whose available funds were
\* below its amount took total and available below zero.
C21_Witness ==
    /\ LastIs("Withdraw")
    /\ get_available(before) < last.amount
    /\ account.snapshot.total < 0
    /\ get_available(account.snapshot) < 0

\* The record read last is a deposit or withdrawal of an amount below zero.
InvalidRow == row /= None /\ row[1].type \in {"deposit", "withdrawal"} /\ row[1].amount < 0

\* C22: a deposit or withdrawal record of an amount below zero ends the reading
\* with the error: it is the last record read, nothing is applied after it and
\* no row is ever written, whatever was applied before; a reading that ends
\* without such a record hands on a portfolio whose accounts hold every
\* transaction applied, in input order.
C22_InvalidAmountAborts ==
    /\ InvalidRow => (status = "Failed" /\ made = None)
    /\ status = "Failed"
          => (InvalidRow /\ written = <<>> /\ again = <<>> /\ portfolio.pos = 0)
    /\ status \in {"Emitting", "Done"}
          => (/\ ~InvalidRow
              /\ \A i \in 1..Len(accounts) :
                    accounts[i].transactions
                       = SelectSeq(applied,
                                   LAMBDA t : t.client = accounts[i].client)
              /\ \A j \in 1..Len(applied) :
                    \E i \in 1..Len(accounts) :
                        accounts[i].client = applied[j].client)

\* C22 witness: a withdrawal of a negative amount ended the reading after two
\* valid records had been applied.
C22_Witness ==
    /\ row /= None
    /\ row[1].type = "withdrawal"
    /\ row[1].amount < 0
    /\ status = "Failed"
    /\ Len(applied) = 2
    /\ written = <<>>

\* The snapshot the history scan of transaction.rs derives from the history of
\* the account.
Scanned == scan_take_snapshot(account.client, hist)

\* C23: after every sequence of transactions applied to an account, the
\* snapshot the account maintains is the snapshot the scan of its history
\* derives: same total, held and locked.
C23_IncrementalEqualsScan == take_snapshot(account) = Scanned

\* The last transaction is the first Deposit or Withdraw with its tx id, and
\* the history before it holds one Dispute with that tx id and no Resolve or
\* ChargeBack with it: a dispute that arrived before its target.
TargetAfterDispute ==
    /\ Called
    /\ last.kind \in Monetary
    /\ MonetaryOf(Front(hist), last.tx) = {}
    /\ Cardinality({i \in 1..(Len(hist) - 1) : hist[i].tx = last.tx}) = 1
    /\ \E i \in 1..(Len(hist) - 1) :
          hist[i].tx = last.tx /\ hist[i].kind = "Dispute"

\* C24: a Dispute whose target is not yet in the history holds nothing, and
\* when the target arrives the dispute is open: held rises by the target's
\* amount (and total by it as well for a Withdraw, on top of the Withdraw's own
\* effect).
C24_EarlyDisputeOpensOnTarget ==
    /\ (LastIs("Dispute") /\ MonetaryOf(Front(hist), last.tx) = {})
          => BalanceUnchanged
    /\ TargetAfterDispute
          => account.snapshot.held = before.held + last.amount

\* The transactions of client c in h, in the order of h.
OwnTransactions(c, h) == SelectSeq(h, LAMBDA t : t.client = c)

\* C25: Portfolio.add_transaction with a transaction of client c leaves every
\* account of another client as it is, keeps the accounts in their places and
\* does not move the cursor; and after any input each account is what the
\* transactions of its own client alone make of a new account, whatever
\* transactions of other clients lie between them.
C25_AccountsIndependent ==
    /\ \A t \in Transactions :
          LET r == Portfolio_add_transaction(portfolio, t) IN
          /\ Len(r.p.accounts) >= Len(accounts)
          /\ r.p.pos = portfolio.pos
          /\ \A i \in 1..Len(accounts) :
                accounts[i].client /= t.client => r.p.accounts[i] = accounts[i]
    /\ \A i \in 1..Len(accounts) :
          LET own == OwnTransactions(accounts[i].client, applied) IN
          /\ accounts[i].transactions = own
          /\ accounts[i] = ReplayFor(accounts[i].client, own)

\* C25 witness: the third transaction changed the balance of the second
\* account while the first account had funds held for an open dispute.
C25_Witness ==
    /\ Len(accounts) = 2
    /\ Len(applied) = 3
    /\ applied[3].client = accounts[2].client
    /\ accounts[1].snapshot.held > 0
    /\ accounts[2].snapshot.total /= 0
    /\ Len(accounts[2].transactions) = 1

\* C26: the emit loop ends: a run that has entered it reaches the end of it,
\* having written one row for each account; get_snapshot_line returned Some once
\* for each account and never more rows than there are accounts.
C26_EmitLoopTerminates ==
    /\ [](Len(written) <= Len(accounts))
    /\ [](status = "Done"
            => (Len(written) = Len(accounts) /\ portfolio.pos = Len(accounts)))
    /\ (status = "Emitting") ~> (status = "Done")

\* C26 witness: the loop has ended after two rows, one for each of the two
\* accounts, and no further call has been made.
C26_Witness ==
    /\ status = "Done"
    /\ Len(accounts) = 2
    /\ Len(written) = Len(accounts)
    /\ portfolio.pos = 2
    /\ again = <<>>

\* The amount of the Deposit or Withdraw with tx id x when the dispute of x is
\* open after h, and 0 when it is not.
OpenAmount(h, x) ==
    IF Lifecycle(h)[x] = "Open"
    THEN h[CHOOSE i \in MonetaryOf(h, x) : TRUE].amount
    ELSE 0

\* The sum of OpenAmount over the tx ids of S.
RECURSIVE SumOfOpen(_, _)
SumOfOpen(h, S) ==
    IF S = {} THEN 0
    ELSE LET x == CHOOSE y \in S : TRUE
         IN  OpenAmount(h, x) + SumOfOpen(h, S \ {x})

\* Every tx id is the id of at most one Deposit or Withdraw of h.
UniqueTxIds(h) == \A x \in TxIds : Cardinality(MonetaryOf(h, x)) <= 1

\* C27: in every state of an account whose tx ids are unique, held is the sum
\* of the amounts of the transactions whose dispute is open, and so 0 when no
\* dispute is open.
C27_HeldIsSumOfOpenDisputes ==
    UniqueTxIds(hist) => account.snapshot.held = SumOfOpen(hist, TxIds)

\* C28, the hold: a Dispute(tx) applied when tx was never disputed and the
\* history holds one or more Deposits or Withdraws with that tx id raises held
\* by the amount of one of them.
C28_DisputeHoldsOne ==
    (/\ LastIs("Dispute")
     /\ StatusBefore[last.tx] = "NoDispute"
     /\ MonetaryOf(Front(hist), last.tx) /= {})
        => \E i \in MonetaryOf(Front(hist), last.tx) :
              account.snapshot.held = before.held + hist[i].amount

\* C28, the release: the Resolve(tx), or the ChargeBack(tx) on an unlocked
\* account, that follows the first Dispute(tx) takes held back to its value
\* before that Dispute.
C28_CloseReleasesHeld ==
    (/\ Called
     /\ last.kind \in {"Resolve", "ChargeBack"}
     /\ last.kind = "ChargeBack" => ~before.locked
     /\ JustOpened
     /\ Lifecycle(Front(Front(hist)))[last.tx] = "NoDispute")
        => account.snapshot.held = BeforeDispute.held

\* C28: one Dispute holds the amount of one transaction, also when several
\* Deposits or Withdraws share its tx id, and closing it releases what it held.
C28_DisputeHoldsOneAmount == C28_DisputeHoldsOne /\ C28_CloseReleasesHeld

\* The account with the lock taken off, everything else as it is.
Unlocked(self) == [self EXCEPT !.snapshot.locked = FALSE]

\* C29: on a locked account a Deposit, Withdraw, Dispute or Resolve returns
\* what it returns on the same account without the lock and leaves the same
\* total, held and dispute records, the lock staying set; a Deposit or Withdraw
\* changes total by its amount, a first Dispute of a transaction raises held by
\* its amount and a Resolve of an open dispute lowers held by it; a ChargeBack
\* changes nothing.
C29_LockBlocksChargeBackOnly ==
    /\ account.snapshot.locked
          => \A t \in ExampleTransactions :
                (t.client = account.client /\ t.kind /= "ChargeBack")
                   => LET l == add_transaction(account, t)
                          u == add_transaction(Unlocked(account), t)
                      IN  /\ l.res = u.res
                          /\ l.acc.snapshot.locked
                          /\ Unlocked(l.acc) = u.acc
    /\ (Called /\ before.locked /\ last.kind = "Deposit")
          => account.snapshot.total = before.total + last.amount
    /\ (Called /\ before.locked /\ last.kind = "Withdraw")
          => account.snapshot.total = before.total - last.amount
    /\ (/\ LastIs("Dispute")
        /\ before.locked
        /\ StatusBefore[last.tx] = "NoDispute"
        /\ Cardinality(MonetaryOf(Front(hist), last.tx)) = 1)
          => account.snapshot.held = before.held + ReferencedAmount
    /\ \A k \in Monetary :
          (LastIs("Resolve") /\ before.locked /\ ClosesOpenDisputeOn(k))
             => account.snapshot.held = before.held - ReferencedAmount
    /\ (LastIs("ChargeBack") /\ before.locked) => BalanceUnchanged

\* C29 witness: on a locked account a Dispute raised held and the Resolve that
\* followed lowered it again.
C29_Witness ==
    /\ LastIs("Resolve")
    /\ before.locked
    /\ JustOpened
    /\ BeforeDispute.locked
    /\ before.held > BeforeDispute.held
    /\ account.snapshot.held < before.held

====
